---- MODULE Spec2Model ----
(***************************************************************************)
(* ember-frost-bunsen: addon/components/inputs/abstract-input.js           *)
(*                                                                         *)
(* The abstract input widget (transform engine, error-visibility flag,     *)
(* change pipeline, hook construction in init) and the format-validation   *)
(* test helper that drives a rendered form holding one such widget.        *)
(*                                                                         *)
(* JavaScript values are records [t |-> type tag, s |-> payload], where    *)
(* the payload of a string is its sequence of characters.  A thrown        *)
(* TypeError is carried as the value TypeError.                            *)
(***************************************************************************)
EXTENDS Integers, Sequences, FiniteSets

\* ---------------------------------------------------------------- bounds

\* longest string handed to the transform engine
MaxStrLen == 3
\* longest `from` of a string transform
MaxFromLen == 2
\* longest `to` of a string transform
MaxToLen == 1
\* longest transform sequence
MaxTransforms == 2

\* ------------------------------------------------------- JavaScript values

Alphabet == {"a", "."}

RECURSIVE StringsUpTo(_)
StringsUpTo(n) ==
  IF n = 0 THEN {<<>>}
  ELSE LET shorter == StringsUpTo(n - 1)
       IN  shorter \cup {Append(w, c) : w \in {x \in shorter : Len(x) = n - 1}, c \in Alphabet}

Undefined == [t |-> "undefined", s |-> <<>>]
Null == [t |-> "null", s |-> <<>>]
True == [t |-> "boolean", s |-> <<"true">>]
False == [t |-> "boolean", s |-> <<"false">>]
Zero == [t |-> "number", s |-> <<"0">>]
FortyTwo == [t |-> "number", s |-> <<"4", "2">>]
Str(chars) == [t |-> "string", s |-> chars]
\* the outcome of an operation that threw a TypeError
TypeError == [t |-> "TypeError", s |-> <<>>]

\* _.isString
isString(v) == v.t = "string"

\* _.isUndefined
isUndefined(v) == v = Undefined

\* JavaScript truthiness (ToBoolean)
Truthy(v) ==
  /\ v \notin {Undefined, Null, False, Zero}
  /\ v # Str(<<>>)

\* _.isEqual: deep equality; values are kept in a canonical form
isEqual(a, b) == a = b

\* ToString, as string concatenation applies it
ToString(v) == IF isString(v) THEN v.s ELSE IF v.t \in {"undefined", "null"} THEN <<v.t>> ELSE v.s

\* ------------------------------------------------------------- transforms

\* A transform is an object whose keys may be absent: has* says whether the
\* key is `in` the transform.
Transform(hasObject, object, hasFrom, from, hasTo, to, regex, global) ==
  [hasObject |-> hasObject, object |-> object, hasFrom |-> hasFrom, from |-> from,
   hasTo |-> hasTo, to |-> to, regex |-> regex, global |-> global]

StringTransform(from, to, regex, global) ==
  Transform(FALSE, <<>>, TRUE, from, TRUE, to, regex, global)

\* ----------------------------------------------- String.prototype methods

\* the pattern new RegExp(from) (or the literal from) matches s at index i
MatchesAt(s, i, pattern, isRegex) ==
  /\ i >= 1
  /\ i + Len(pattern) - 1 <= Len(s)
  /\ \A k \in 1..Len(pattern) : (isRegex /\ pattern[k] = ".") \/ pattern[k] = s[i + k - 1]

HasMatchFrom(s, i, pattern, isRegex) ==
  \E j \in i..(Len(s) + 1) : MatchesAt(s, j, pattern, isRegex)

FirstMatchFrom(s, i, pattern, isRegex) ==
  CHOOSE j \in i..(Len(s) + 1) :
    /\ MatchesAt(s, j, pattern, isRegex)
    /\ \A k \in i..(j - 1) : ~MatchesAt(s, k, pattern, isRegex)

\* String.prototype.replace(new RegExp(pattern, flags), to), scanning from
\* lastIndex = i - 1; an empty match advances lastIndex by one.
RECURSIVE RegExpReplace(_, _, _, _, _)
RegExpReplace(s, i, pattern, flags, to) ==
  IF ~HasMatchFrom(s, i, pattern, TRUE) THEN SubSeq(s, i, Len(s))
  ELSE LET j == FirstMatchFrom(s, i, pattern, TRUE)
           n == Len(pattern)
       IN  SubSeq(s, i, j - 1) \o to \o
           (IF flags # "g" THEN SubSeq(s, j + n, Len(s))
            ELSE IF n = 0
                 THEN (IF j <= Len(s)
                       THEN <<s[j]>> \o RegExpReplace(s, j + 1, pattern, flags, to)
                       ELSE <<>>)
                 ELSE RegExpReplace(s, j + n, pattern, flags, to))

\* String.prototype.split(separator): the pieces between the occurrences
RECURSIVE split(_, _)
split(s, separator) ==
  IF separator = <<>> THEN [i \in 1..Len(s) |-> <<s[i]>>]
  ELSE IF ~HasMatchFrom(s, 1, separator, FALSE) THEN <<s>>
       ELSE LET j == FirstMatchFrom(s, 1, separator, FALSE)
            IN  <<SubSeq(s, 1, j - 1)>> \o split(SubSeq(s, j + Len(separator), Len(s)), separator)

\* Array.prototype.join(separator)
RECURSIVE join(_, _)
join(pieces, separator) ==
  IF pieces = <<>> THEN <<>>
  ELSE IF Len(pieces) = 1 THEN pieces[1]
  ELSE pieces[1] \o separator \o join(Tail(pieces), separator)

\* ------------------------------------------------------------------ state

VARIABLES
  \* properties the parent supplies (propTypes)
  bunsenId, formHook, cellConfig, value, errorMessage, showAllErrors,
  \* the widget's own properties
  showErrorMessage, hook, transformedValueCache,
  \* lifecycle position of the widget: "created" before init, "ready" after
  pc,
  \* what the last handler did: its name, its event, the invocations of the
  \* upward onChange callback it made, whether it threw, the Logger output
  lastAction, lastEvent, onChangeSpy, threw, debugLog, warnLog,
  \* history: the most recent focus event, the most recent edit since the
  \* parent last supplied properties
  lastFocus, lastEdit,
  \* a call of the transform engine on its own: function, arguments, result
  engineCall, engineResult,
  \* the format test helper: position, the sample typed, the form around the
  \* widget and what its consumer callbacks received
  testPc, testInput, formValue, consumerValue, validationResult

widgetVars ==
  <<bunsenId, formHook, cellConfig, value, errorMessage, showAllErrors,
    showErrorMessage, hook, transformedValueCache, pc,
    lastAction, lastEvent, onChangeSpy, threw, debugLog, warnLog, lastFocus, lastEdit>>

engineVars == <<engineCall, engineResult>>

formVars == <<testPc, testInput, formValue, consumerValue, validationResult>>

vars == <<widgetVars, engineVars, formVars>>

\* ------------------------------------------------------- transform engine

\* bunsen-core parseVariables(variables, template, '', true): the library is
\* outside this file; its result is kept as the term of its arguments.
parseVariables(variables, template) ==
  Str(<<"parseVariables(", variables.id.t>> \o variables.id.s \o <<",", variables.value.t>>
      \o variables.value.s \o <<",">> \o template \o <<")">>)

getTemplateVariables(v) == [id |-> bunsenId, value |-> v]

\* the entries key:resolved; of the new object, in key order
RECURSIVE ObjectEntries(_, _)
ObjectEntries(variables, object) ==
  IF object = <<>> THEN <<>>
  ELSE <<object[1].key, ":">> \o parseVariables(variables, object[1].template).s \o <<";">>
       \o ObjectEntries(variables, Tail(object))

applyObjectTransform(v, transform) ==
  LET variables == getTemplateVariables(v)
  IN  [t |-> "object", s |-> ObjectEntries(variables, transform.object)]

applyStringTransformTruthyGlobal(v, transform) ==
  LET flags == IF Truthy(transform.global) THEN "g" ELSE ""
  IN  IF ~isString(v) THEN TypeError
      ELSE IF Truthy(transform.regex)
           THEN Str(RegExpReplace(v.s, 1, transform.from, flags, transform.to))
           ELSE Str(join(split(v.s, transform.from), transform.to))

\* a non-string value has neither replace nor split: the call throws
applyStringTransform(v, transform) ==
  LET flags == IF transform.global = False THEN "" ELSE "g"
  IN  IF ~isString(v) THEN TypeError
      ELSE IF Truthy(transform.regex)
           THEN Str(RegExpReplace(v.s, 1, transform.from, flags, transform.to))
           ELSE Str(join(split(v.s, transform.from), transform.to))

applyTransformFromSuffices(v, transform) ==
  LET isObjectTransform == transform.hasObject
      isStringTransform == transform.hasFrom
  IN  IF isObjectTransform THEN [val |-> applyObjectTransform(v, transform), warn |-> <<>>]
      ELSE IF isStringTransform THEN [val |-> applyStringTransform(v, transform), warn |-> <<>>]
      ELSE [val |-> v, warn |-> <<transform>>]

\* the returned value and what Logger.warn received
applyTransform(v, transform) ==
  LET isObjectTransform == transform.hasObject
      isStringTransform == transform.hasFrom /\ transform.hasTo
  IN  IF isObjectTransform THEN [val |-> applyObjectTransform(v, transform), warn |-> <<>>]
      ELSE IF isStringTransform THEN [val |-> applyStringTransform(v, transform), warn |-> <<>>]
      ELSE [val |-> v, warn |-> <<transform>>]

\* Array.prototype.reduce(applyTransform, initial); a throw ends the fold
RECURSIVE reduce(_, _, _)
reduce(transforms, i, acc) ==
  IF i > Len(transforms) \/ acc.val = TypeError THEN acc
  ELSE LET r == applyTransform(acc.val, transforms[i])
       IN  reduce(transforms, i + 1, [val |-> r.val, warn |-> acc.warn \o r.warn])

\* Array.prototype.reduceRight
RECURSIVE reduceRight(_, _, _)
reduceRight(transforms, i, acc) ==
  IF i < 1 \/ acc.val = TypeError THEN acc
  ELSE LET r == applyTransform(acc.val, transforms[i])
       IN  reduceRight(transforms, i - 1, [val |-> r.val, warn |-> acc.warn \o r.warn])

\* `transforms` is [defined |-> BOOLEAN, list |-> sequence]: undefined or an array
NoTransforms == [defined |-> FALSE, list |-> <<>>]
Transforms(list) == [defined |-> TRUE, list |-> list]

applyTransformsRightToLeft(v, transforms) ==
  IF ~transforms.defined \/ Len(transforms.list) = 0 THEN [val |-> v, warn |-> <<>>]
  ELSE reduceRight(transforms.list, Len(transforms.list), [val |-> v, warn |-> <<>>])

applyTransforms(v, transforms) ==
  IF ~transforms.defined \/ Len(transforms.list) = 0 THEN [val |-> v, warn |-> <<>>]
  ELSE reduce(transforms.list, 1, [val |-> v, warn |-> <<>>])

\* --------------------------------------- the transform engine on its own

\* values handed to the engine
EngineStrings == {Str(w) : w \in StringsUpTo(MaxStrLen)}
EngineValues == EngineStrings \cup {FortyTwo, Null}

\* every string transform over the alphabet
StringTransforms ==
  {StringTransform(f, t, r, g) :
     f \in StringsUpTo(MaxFromLen), t \in StringsUpTo(MaxToLen),
     r \in {Undefined, True, False, FortyTwo}, g \in {Undefined, True, False, Zero}}

LiteralToDot == StringTransform(<<"a">>, <<".">>, Undefined, Undefined)
LiteralToA == StringTransform(<<".">>, <<"a">>, False, Undefined)
RegexFirst == StringTransform(<<".">>, <<"a">>, True, False)
OnlyFrom == Transform(FALSE, <<>>, TRUE, <<"a">>, FALSE, <<>>, Undefined, Undefined)
NoKeys == Transform(FALSE, <<>>, FALSE, <<>>, FALSE, <<>>, Undefined, Undefined)
ObjectOnly ==
  Transform(TRUE, <<[key |-> "k", template |-> <<"a">>]>>, FALSE, <<>>, FALSE, <<>>,
            Undefined, Undefined)
ObjectAndString ==
  Transform(TRUE, <<[key |-> "k", template |-> <<".">>]>>, TRUE, <<"a">>, TRUE, <<".">>,
            Undefined, Undefined)

\* transforms of every shape
Palette == {LiteralToDot, LiteralToA, RegexFirst, OnlyFrom, NoKeys, ObjectOnly, ObjectAndString}

RECURSIVE SeqsUpTo(_, _)
SeqsUpTo(S, n) ==
  IF n = 0 THEN {<<>>}
  ELSE LET shorter == SeqsUpTo(S, n - 1)
       IN  shorter \cup {Append(w, x) : w \in {y \in shorter : Len(y) = n - 1}, x \in S}

EngineCalls ==
  {[fn |-> "applyStringTransform", arg |-> v, transforms |-> Transforms(<<t>>)] :
     v \in EngineStrings, t \in StringTransforms}
  \cup
  {[fn |-> "applyTransform", arg |-> v, transforms |-> Transforms(<<t>>)] :
     v \in EngineValues, t \in Palette}
  \cup
  {[fn |-> "applyTransforms", arg |-> v, transforms |-> ts] :
     v \in EngineValues,
     ts \in {NoTransforms} \cup {Transforms(l) : l \in SeqsUpTo(Palette, MaxTransforms)}}

EngineIdle == [fn |-> "none", arg |-> Undefined, transforms |-> NoTransforms]
NotRun == [done |-> FALSE, val |-> Undefined, warn |-> <<>>]
Returned(r) == [done |-> TRUE, val |-> r.val, warn |-> r.warn]

callApplyStringTransform ==
  /\ engineCall.fn = "applyStringTransform"
  /\ ~engineResult.done
  /\ engineResult' =
       Returned([val |-> applyStringTransform(engineCall.arg, engineCall.transforms.list[1]),
                 warn |-> <<>>])
  /\ UNCHANGED <<engineCall, widgetVars, formVars>>

callApplyTransform ==
  /\ engineCall.fn = "applyTransform"
  /\ ~engineResult.done
  /\ engineResult' = Returned(applyTransform(engineCall.arg, engineCall.transforms.list[1]))
  /\ UNCHANGED <<engineCall, widgetVars, formVars>>

callApplyTransforms ==
  /\ engineCall.fn = "applyTransforms"
  /\ ~engineResult.done
  /\ engineResult' = Returned(applyTransforms(engineCall.arg, engineCall.transforms))
  /\ UNCHANGED <<engineCall, widgetVars, formVars>>

\* ------------------------------------------------------------- the widget

\* an event handed to the onChange action: its `value` key, its
\* `target.value` path and the event itself (a DOM-like object, or a bare value)
Event(val, targetValue, self) == [value |-> val, targetValue |-> targetValue, self |-> self]
EventObject == [t |-> "object", s |-> <<"event">>]
NoEvent == Event(Undefined, Undefined, Undefined)

Events ==
  {Event(x, y, EventObject) :
     x \in {Undefined, Null, Str(<<"a">>)}, y \in {Undefined, Str(<<".">>)}}
  \cup {Event(Undefined, Undefined, Str(<<"a">>))}

BunsenIds == {Undefined, Str(<<"a", ".", "a">>)}
FormHooks == {Undefined, Str(<<"f">>)}
ReadTransforms == {NoTransforms, Transforms(<<LiteralToA>>)}
WriteTransforms == {NoTransforms, Transforms(<<LiteralToDot>>), Transforms(<<ObjectOnly>>)}
CellConfigs == {[read |-> r, write |-> w] : r \in ReadTransforms, w \in WriteTransforms}
WidgetValues == {Undefined, Str(<<"a">>), Str(<<".">>), FortyTwo}
ErrorMessages == {Null, Str(<<"e">>)}
ShowAllErrors == {Undefined, True}

NoEdit == [e |-> NoEvent, n |-> 0, before |-> "none"]

renderErrorMessageIgnoresFocus(message, show, showAll) ==
  IF ~Truthy(showAll) THEN Null ELSE message

renderErrorMessage(message, show, showAll) ==
  IF ~Truthy(showAll) /\ ~show THEN Null ELSE message

transformedValueAlways(v, config) == applyTransforms(v, config.read).val

transformedValue(v, config) ==
  IF ~isString(v) THEN v ELSE applyTransforms(v, config.read).val

\* _.find(candidates, value => !_.isUndefined(value))
RECURSIVE find(_)
find(candidates) ==
  IF candidates = <<>> THEN Undefined
  ELSE IF ~isUndefined(candidates[1]) THEN candidates[1]
  ELSE find(Tail(candidates))

parseValueTargetFirst(data) == find(<<data.targetValue, data.value, data.self>>)

parseValue(data) == find(<<data.value, data.targetValue, data.self>>)

\* the hook set by init, or Undefined when building it threw
hookOfInit ==
  IF ~isString(bunsenId) THEN Undefined
  ELSE LET pieces == split(bunsenId.s, <<".">>)
       IN  Str(ToString(formHook) \o <<"-">> \o pieces[Len(pieces)])

initSilentCatch ==
  /\ pc = "created"
  /\ pc' = "ready"
  /\ IF isString(bunsenId)
       THEN hook' = hookOfInit /\ debugLog' = <<>>
       ELSE hook' = hook /\ debugLog' = <<>>
  /\ lastAction' = "init"
  /\ lastEvent' = NoEvent
  /\ onChangeSpy' = <<>>
  /\ threw' = FALSE
  /\ warnLog' = <<>>
  /\ UNCHANGED <<bunsenId, formHook, cellConfig, value, errorMessage, showAllErrors,
                 showErrorMessage, transformedValueCache, lastFocus, lastEdit>>

init ==
  /\ pc = "created"
  /\ pc' = "ready"
  /\ IF isString(bunsenId)
       THEN hook' = hookOfInit /\ debugLog' = <<>>
       ELSE hook' = hook /\ debugLog' = <<TypeError>>
  /\ lastAction' = "init"
  /\ lastEvent' = NoEvent
  /\ onChangeSpy' = <<>>
  /\ threw' = FALSE
  /\ warnLog' = <<>>
  /\ UNCHANGED <<bunsenId, formHook, cellConfig, value, errorMessage, showAllErrors,
                 showErrorMessage, transformedValueCache, lastFocus, lastEdit>>

onFocusOut ==
  /\ pc = "ready"
  /\ showErrorMessage' = (IF ~showErrorMessage THEN TRUE ELSE showErrorMessage)
  /\ lastFocus' = "out"
  /\ lastAction' = "onFocusOut"
  /\ lastEvent' = NoEvent
  /\ onChangeSpy' = <<>>
  /\ threw' = FALSE
  /\ warnLog' = <<>>
  /\ UNCHANGED <<bunsenId, formHook, cellConfig, value, errorMessage, showAllErrors,
                 hook, transformedValueCache, pc, debugLog, lastEdit>>

onFocusInKeepsError ==
  /\ pc = "ready"
  /\ showErrorMessage' = showErrorMessage
  /\ lastFocus' = "in"
  /\ lastAction' = "onFocusIn"
  /\ lastEvent' = NoEvent
  /\ onChangeSpy' = <<>>
  /\ threw' = FALSE
  /\ warnLog' = <<>>
  /\ UNCHANGED <<bunsenId, formHook, cellConfig, value, errorMessage, showAllErrors,
                 hook, transformedValueCache, pc, debugLog, lastEdit>>

onFocusIn ==
  /\ pc = "ready"
  /\ showErrorMessage' = (IF showErrorMessage THEN FALSE ELSE showErrorMessage)
  /\ lastFocus' = "in"
  /\ lastAction' = "onFocusIn"
  /\ lastEvent' = NoEvent
  /\ onChangeSpy' = <<>>
  /\ threw' = FALSE
  /\ warnLog' = <<>>
  /\ UNCHANGED <<bunsenId, formHook, cellConfig, value, errorMessage, showAllErrors,
                 hook, transformedValueCache, pc, debugLog, lastEdit>>

onChangeCallsAlways(e) ==
  LET newValue == parseValue(e)
      transformedNewValue == applyTransforms(newValue, cellConfig.write).val
  IN  IF transformedNewValue = TypeError THEN <<>>
      ELSE <<[id |-> bunsenId, value |-> transformedNewValue]>>

\* the invocations of the upward onChange callback that actions.onChange(e)
\* makes; none when applying the write transforms throws
onChangeCalls(e) ==
  LET newValue == parseValue(e)
      transformedNewValue == applyTransforms(newValue, cellConfig.write).val
      oldValue == value
  IN  IF transformedNewValue = TypeError THEN <<>>
      ELSE IF ~isEqual(transformedNewValue, oldValue)
           THEN <<[id |-> bunsenId, value |-> transformedNewValue]>>
           ELSE <<>>

\* what the handler leaves behind for the observer, common to every caller
onChangeObserved(e) ==
  LET calls == onChangeCalls(e)
      r == applyTransforms(parseValue(e), cellConfig.write)
  IN  /\ lastAction' = "onChange"
      /\ lastEvent' = e
      /\ onChangeSpy' = calls
      /\ threw' = (r.val = TypeError)
      /\ warnLog' = r.warn
      /\ lastEdit' = [e |-> e, n |-> Len(calls),
                      before |-> IF lastEdit # NoEdit /\ lastEdit.e = e
                                 THEN (IF lastEdit.n > 0 THEN "fired" ELSE "silent")
                                 ELSE "none"]

onChangeCommits(e) ==
  /\ pc = "ready"
  /\ onChangeObserved(e)
  /\ value' = (IF onChangeCalls(e) # <<>> THEN onChangeCalls(e)[1].value ELSE value)
  /\ transformedValueCache' = transformedValue(value', cellConfig)
  /\ UNCHANGED <<bunsenId, formHook, cellConfig, errorMessage, showAllErrors,
                 showErrorMessage, hook, pc, debugLog, lastFocus>>

\* actions.onChange with a callback that does nothing (a spy)
onChange(e) ==
  /\ pc = "ready"
  /\ onChangeObserved(e)
  /\ UNCHANGED <<bunsenId, formHook, cellConfig, value, errorMessage, showAllErrors,
                 showErrorMessage, hook, transformedValueCache, pc, debugLog, lastFocus>>

\* the parent supplies new properties; the computed properties that depend
\* on them are computed again
parentUpdate(v, message, showAll) ==
  /\ pc = "ready"
  /\ <<v, message, showAll>> # <<value, errorMessage, showAllErrors>>
  /\ value' = v
  /\ errorMessage' = message
  /\ showAllErrors' = showAll
  /\ transformedValueCache' = transformedValue(v, cellConfig)
  /\ lastAction' = "update"
  /\ lastEvent' = NoEvent
  /\ onChangeSpy' = <<>>
  /\ threw' = (transformedValue(v, cellConfig) = TypeError)
  /\ warnLog' = (IF isString(v) THEN applyTransforms(v, cellConfig.read).warn ELSE <<>>)
  /\ lastEdit' = NoEdit
  /\ UNCHANGED <<bunsenId, formHook, cellConfig, showErrorMessage, hook, pc, debugLog, lastFocus>>

FormIdle ==
  /\ testPc = "none"
  /\ testInput = [format |-> "none", input |-> <<>>]
  /\ formValue = Undefined
  /\ consumerValue = Undefined
  /\ validationResult = [defined |-> FALSE, errors |-> <<>>, warnings |-> <<>>]

WidgetCreated ==
  /\ showErrorMessage = FALSE
  /\ hook = Undefined
  /\ transformedValueCache = transformedValue(value, cellConfig)
  /\ pc = "created"
  /\ lastAction = "none"
  /\ lastEvent = NoEvent
  /\ onChangeSpy = <<>>
  /\ threw = FALSE
  /\ debugLog = <<>>
  /\ warnLog = <<>>
  /\ lastFocus = "none"
  /\ lastEdit = NoEdit

Init ==
  /\ bunsenId \in BunsenIds
  /\ formHook \in FormHooks
  /\ cellConfig \in CellConfigs
  /\ value \in WidgetValues
  /\ errorMessage \in ErrorMessages
  /\ showAllErrors \in ShowAllErrors
  /\ WidgetCreated
  /\ engineCall = EngineIdle
  /\ engineResult = NotRun
  /\ FormIdle

\* the widget alone: its callback is a spy, its parent an environment
Next ==
  \/ init /\ UNCHANGED <<engineVars, formVars>>
  \/ onFocusOut /\ UNCHANGED <<engineVars, formVars>>
  \/ onFocusIn /\ UNCHANGED <<engineVars, formVars>>
  \/ \E e \in Events : onChange(e) /\ UNCHANGED <<engineVars, formVars>>
  \/ \E v \in WidgetValues, message \in ErrorMessages, showAll \in ShowAllErrors :
       parentUpdate(v, message, showAll) /\ UNCHANGED <<engineVars, formVars>>

Spec == Init /\ [][Next]_vars

\* the transform engine called on its own, for every argument in the bounds
InitEngine ==
  /\ bunsenId = Str(<<"a">>)
  /\ formHook = Undefined
  /\ cellConfig = [read |-> NoTransforms, write |-> NoTransforms]
  /\ value = Undefined
  /\ errorMessage = Null
  /\ showAllErrors = Undefined
  /\ WidgetCreated
  /\ engineCall \in EngineCalls
  /\ engineResult = NotRun
  /\ FormIdle

NextEngine ==
  \/ callApplyStringTransform
  \/ callApplyTransform
  \/ callApplyTransforms

SpecEngine == InitEngine /\ [][NextEngine]_vars

\* ------------------------------------ the format test helper and its form

\* The form component and the validator are outside this file: the form
\* writes the changed field into its value, validates it, hands both to its
\* consumer and renders the widget again with the field's value and error.

Formats == {"has-dot", "starts-with-a"}
Samples == StringsUpTo(MaxStrLen) \ {<<>>}

\* the validator's verdict on a sample
passesFormat(format, input) ==
  IF format = "has-dot" THEN \E i \in 1..Len(input) : input[i] = "."
  ELSE input[1] = "a"

formatErrorMessage(format, input) ==
  Str(<<"Object didn't pass validation for format ", format, ": ">> \o input)

FooId == Str(<<"f", "o", "o">>)
FooObject(v) == [t |-> "object", s |-> <<"foo", ":", v.t>> \o v.s]

validate(format, v) ==
  IF isString(v) /\ ~passesFormat(format, v.s)
  THEN [defined |-> TRUE,
        errors |-> <<[message |-> formatErrorMessage(format, v.s), path |-> "#/foo"]>>,
        warnings |-> <<>>]
  ELSE [defined |-> TRUE, errors |-> <<>>, warnings |-> <<>>]

\* the input event the text input raises for the text typed into it
inputEvent(input) == Event(Undefined, Str(input), EventObject)

\* the form's reaction to the invocations of the widget's onChange callback
formOnChange(calls) ==
  IF calls = <<>>
  THEN UNCHANGED <<value, errorMessage, transformedValueCache, formValue, consumerValue,
                   validationResult>>
  ELSE LET v == calls[1].value
           result == validate(testInput.format, v)
       IN  /\ formValue' = FooObject(v)
           /\ consumerValue' = FooObject(v)
           /\ validationResult' = result
           /\ value' = v
           /\ errorMessage' = (IF result.errors = <<>> THEN Null ELSE result.errors[1].message)
           /\ transformedValueCache' = transformedValue(v, cellConfig)

\* .focus()
focusInput ==
  /\ testPc = "rendered"
  /\ testPc' = "focused"
  /\ onFocusIn
  /\ UNCHANGED <<testInput, formValue, consumerValue, validationResult, engineVars>>

\* .val(input).trigger('input')
triggerInput ==
  /\ testPc = "focused"
  /\ testPc' = "typed"
  /\ onChangeObserved(inputEvent(testInput.input))
  /\ formOnChange(onChangeCalls(inputEvent(testInput.input)))
  /\ UNCHANGED <<bunsenId, formHook, cellConfig, showAllErrors, showErrorMessage, hook, pc,
                 debugLog, lastFocus>>
  /\ UNCHANGED <<testInput, engineVars>>

\* .focusout()
focusoutInput ==
  /\ testPc = "typed"
  /\ testPc' = "done"
  /\ onFocusOut
  /\ UNCHANGED <<testInput, formValue, consumerValue, validationResult, engineVars>>

\* the form as the helper's beforeEach renders it, one scenario per sample
InitForm ==
  /\ bunsenId = FooId
  /\ formHook = Str(<<"f">>)
  /\ cellConfig = [read |-> NoTransforms, write |-> NoTransforms]
  /\ value = Undefined
  /\ errorMessage = Null
  /\ showAllErrors = False
  /\ showErrorMessage = FALSE
  /\ hook = hookOfInit
  /\ transformedValueCache = Undefined
  /\ pc = "ready"
  /\ lastAction = "init"
  /\ lastEvent = NoEvent
  /\ onChangeSpy = <<>>
  /\ threw = FALSE
  /\ debugLog = <<>>
  /\ warnLog = <<>>
  /\ lastFocus = "none"
  /\ lastEdit = NoEdit
  /\ engineCall = EngineIdle
  /\ engineResult = NotRun
  /\ testPc = "rendered"
  /\ testInput \in {[format |-> f, input |-> w] : f \in Formats, w \in Samples}
  /\ formValue = Undefined
  /\ consumerValue = Undefined
  /\ validationResult = [defined |-> FALSE, errors |-> <<>>, warnings |-> <<>>]

NextForm ==
  \/ focusInput
  \/ triggerInput
  \/ focusoutInput

SpecForm == InitForm /\ [][NextForm]_vars

\* ------------------------------------------------------------- properties

\* the first defined of event.value, event.target.value and the event itself
FirstDefined(e) ==
  IF e.value # Undefined THEN e.value
  ELSE IF e.targetValue # Undefined THEN e.targetValue
  ELSE e.self

\* the left-to-right fold, stated from the last transform backwards: the
\* result for a sequence is the last transform applied to the result for the
\* sequence without it
RECURSIVE LeftFold(_, _)
LeftFold(v, list) ==
  IF list = <<>> THEN [val |-> v, warn |-> <<>>]
  ELSE LET before == LeftFold(v, SubSeq(list, 1, Len(list) - 1))
           r == applyTransform(before.val, list[Len(list)])
       IN  IF before.val = TypeError THEN before
           ELSE [val |-> r.val, warn |-> before.warn \o r.warn]

Reverse(list) == [i \in 1..Len(list) |-> list[Len(list) + 1 - i]]

\* the parsed raw input of event e after the write transforms
WriteTransformed(e) ==
  IF cellConfig.write.defined THEN LeftFold(FirstDefined(e), cellConfig.write.list).val
  ELSE FirstDefined(e)

\* C1: an onChange event invokes the upward callback exactly once when the
\* write-transformed parsed value is not deep-equal to the committed value and
\* not at all when it is deep-equal (nor when applying the transforms threw).
OnChangeFiresIffValueChanges ==
  lastAction = "onChange" =>
    IF WriteTransformed(lastEvent) = TypeError THEN threw /\ onChangeSpy = <<>>
    ELSE /\ ~threw
         /\ Len(onChangeSpy) = (IF WriteTransformed(lastEvent) # value THEN 1 ELSE 0)

\* an edit whose write transform turns another text into the committed value
\* passed without a notification
SilentTransformedEdit ==
  /\ lastAction = "onChange"
  /\ onChangeSpy = <<>>
  /\ ~threw
  /\ FirstDefined(lastEvent) # value
  /\ cellConfig.write.defined

\* C2: every invocation of the upward callback carries the bunsenId and the
\* write transforms of the first defined of event.value, event.target.value
\* and the event, whatever the type of that value.
OnChangeArguments ==
  lastAction = "onChange" =>
    \A i \in 1..Len(onChangeSpy) :
      onChangeSpy[i] = [id |-> bunsenId, value |-> WriteTransformed(lastEvent)]

\* a write transform was applied to a parsed value that is no string, taken
\* from event.target.value or the event because event.value was undefined
NonStringWritten ==
  /\ lastAction = "onChange"
  /\ Len(onChangeSpy) = 1
  /\ lastEvent.value = Undefined
  /\ ~isString(FirstDefined(lastEvent))
  /\ cellConfig.write.defined
  /\ onChangeSpy[1].value # FirstDefined(lastEvent)

\* C3: the displayed value is the read transforms of the model value when
\* that value is a string and the model value itself when it is not.
DisplayedValueIsReadTransform ==
  transformedValueCache =
    IF isString(value) /\ cellConfig.read.defined
    THEN LeftFold(value, cellConfig.read.list).val
    ELSE value

\* the parent supplied a number while read transforms are configured
NumberShownUntouched ==
  /\ lastAction = "update"
  /\ value = FortyTwo
  /\ cellConfig.read.defined
  /\ cellConfig.read.list # <<>>
  /\ transformedValueCache = FortyTwo

\* C4: renderErrorMessage is the upstream errorMessage when showAllErrors is
\* true or the most recent focus event was a focus-out, and null otherwise.
ErrorShownAfterFocusOutOrShowAll ==
  renderErrorMessage(errorMessage, showErrorMessage, showAllErrors) =
    IF showAllErrors = True \/ lastFocus = "out" THEN errorMessage ELSE Null

\* an upstream error is hidden after a focus-in that followed its display
ErrorHiddenOnFocusIn ==
  /\ lastAction = "onFocusIn"
  /\ errorMessage # Null
  /\ showAllErrors # True
  /\ ~showErrorMessage
  /\ renderErrorMessage(errorMessage, showErrorMessage, showAllErrors) = Null

\* C5: applyTransforms returns the value unchanged for absent or empty
\* transforms and otherwise the left-to-right fold of applyTransform.
ApplyTransformsIsLeftFold ==
  engineCall.fn = "applyTransforms" /\ engineResult.done =>
    IF ~engineCall.transforms.defined \/ engineCall.transforms.list = <<>>
    THEN engineResult.val = engineCall.arg /\ engineResult.warn = <<>>
    ELSE /\ engineResult.val = LeftFold(engineCall.arg, engineCall.transforms.list).val
         /\ engineResult.warn = LeftFold(engineCall.arg, engineCall.transforms.list).warn

\* two transforms whose order decides the result
OrderDecidesResult ==
  /\ engineCall.fn = "applyTransforms"
  /\ engineResult.done
  /\ Len(engineCall.transforms.list) = 2
  /\ engineResult.val # TypeError
  /\ LeftFold(engineCall.arg, Reverse(engineCall.transforms.list)).val # TypeError
  /\ engineResult.val # LeftFold(engineCall.arg, Reverse(engineCall.transforms.list)).val

\* the start indexes of the matches a global replacement replaces: every
\* match that no replaced match starting before it overlaps
AllMatches(s, pattern, isRegex) ==
  CHOOSE P \in SUBSET (1..(Len(s) + 1)) :
    \A j \in 1..(Len(s) + 1) :
      j \in P <=> /\ MatchesAt(s, j, pattern, isRegex)
                  /\ ~\E i \in P : i < j /\ j < i + Len(pattern)

\* s from index i on, with `to` in place of the n characters at each index of P
RECURSIVE Rebuild(_, _, _, _, _)
Rebuild(s, i, P, n, to) ==
  IF i > Len(s) THEN (IF i \in P THEN to ELSE <<>>)
  ELSE IF i \in P
       THEN to \o (IF n = 0 THEN <<s[i]>> \o Rebuild(s, i + 1, P, n, to)
                   ELSE Rebuild(s, i + n, P, n, to))
       ELSE <<s[i]>> \o Rebuild(s, i + 1, P, n, to)

\* s with `to` in place of the first match only
FirstReplaced(s, pattern, to) ==
  IF \A j \in 1..(Len(s) + 1) : ~MatchesAt(s, j, pattern, TRUE) THEN s
  ELSE LET j == CHOOSE k \in 1..(Len(s) + 1) :
                  /\ MatchesAt(s, k, pattern, TRUE)
                  /\ \A m \in 1..(k - 1) : ~MatchesAt(s, m, pattern, TRUE)
       IN  SubSeq(s, 1, j - 1) \o to \o SubSeq(s, j + Len(pattern), Len(s))

\* the characters of s with `to` between them
RECURSIVE Interleaved(_, _)
Interleaved(s, to) ==
  IF Len(s) <= 1 THEN s ELSE <<s[1]>> \o to \o Interleaved(Tail(s), to)

\* C6: a regex string transform replaces every match unless global is exactly
\* false, and then the first match only; a string transform that is no regex
\* replaces every literal occurrence of `from` (split, then join).
StringTransformReplaces ==
  engineCall.fn = "applyStringTransform" /\ engineResult.done =>
    LET t == engineCall.transforms.list[1]
        s == engineCall.arg.s
    IN  engineResult.val =
          IF Truthy(t.regex)
          THEN (IF t.global = False THEN Str(FirstReplaced(s, t.from, t.to))
                ELSE Str(Rebuild(s, 1, AllMatches(s, t.from, TRUE), Len(t.from), t.to)))
          ELSE IF t.from = <<>> THEN Str(Interleaved(s, t.to))
          ELSE Str(Rebuild(s, 1, AllMatches(s, t.from, FALSE), Len(t.from), t.to))

\* a regex transform whose global key is undefined replaced two matches
UndefinedGlobalReplacesAll ==
  /\ engineCall.fn = "applyStringTransform"
  /\ engineResult.done
  /\ engineCall.transforms.list[1].regex = True
  /\ engineCall.transforms.list[1].global = Undefined
  /\ Cardinality(AllMatches(engineCall.arg.s, engineCall.transforms.list[1].from, TRUE)) >= 2
  /\ engineResult.val #
       Str(FirstReplaced(engineCall.arg.s, engineCall.transforms.list[1].from,
                         engineCall.transforms.list[1].to))

isUnknownShape(t) == ~t.hasObject /\ ~(t.hasFrom /\ t.hasTo)
KnownOf(list) == SelectSeq(list, LAMBDA t : ~isUnknownShape(t))
UnknownOf(list) == SelectSeq(list, isUnknownShape)

\* C7: applyTransform applies the object transform when `object` is present,
\* the string transform when `from` and `to` are, and otherwise returns the
\* value unchanged with one warning; the transforms after it still apply.
TransformShapeSelection ==
  /\ engineCall.fn = "applyTransform" /\ engineResult.done =>
       LET t == engineCall.transforms.list[1]
           v == engineCall.arg
       IN  IF t.hasObject
           THEN engineResult.val = applyObjectTransform(v, t) /\ engineResult.warn = <<>>
           ELSE IF t.hasFrom /\ t.hasTo
           THEN engineResult.val = applyStringTransform(v, t) /\ engineResult.warn = <<>>
           ELSE engineResult.val = v /\ engineResult.warn = <<t>>
  /\ engineCall.fn = "applyTransforms" /\ engineResult.done =>
       /\ engineResult.val = LeftFold(engineCall.arg, KnownOf(engineCall.transforms.list)).val
       /\ engineResult.val # TypeError =>
            engineResult.warn = UnknownOf(engineCall.transforms.list)

\* a transform with `from` alone came first and the string transform after it
\* still changed the value
UnknownThenStringTransform ==
  /\ engineCall.fn = "applyTransforms"
  /\ engineResult.done
  /\ Len(engineCall.transforms.list) = 2
  /\ engineCall.transforms.list[1] = OnlyFrom
  /\ engineCall.transforms.list[2].hasFrom /\ engineCall.transforms.list[2].hasTo
  /\ engineResult.warn = <<OnlyFrom>>
  /\ engineResult.val \notin {engineCall.arg, TypeError}

\* what the helper expects of a sample
SampleError == formatErrorMessage(testInput.format, testInput.input)
SampleIsValid == passesFormat(testInput.format, testInput.input)

LastSegment(chars) ==
  LET dots == {i \in 1..Len(chars) : chars[i] = "."}
      last == CHOOSE i \in dots : \A j \in dots : j <= i
  IN  IF dots = {} THEN chars ELSE SubSeq(chars, last + 1, Len(chars))

\* C9, as amended: building the hook fails in init exactly when bunsenId is
\* no string; the failure is caught and logged at debug level and the hook is
\* left unset.  A missing formHook does not fail: the hook is then
\* "undefined-" followed by the last segment of bunsenId.
HookBuiltUnlessBunsenIdMissing ==
  pc = "ready" =>
    IF isString(bunsenId)
    THEN /\ debugLog = <<>>
         /\ hook = Str((IF formHook = Undefined THEN <<"undefined">> ELSE formHook.s)
                       \o <<"-">> \o LastSegment(bunsenId.s))
    ELSE /\ debugLog = <<TypeError>>
         /\ hook = Undefined

\* init caught the failure of a widget without bunsenId
HookFailureCaught ==
  /\ pc = "ready"
  /\ lastAction = "init"
  /\ ~isString(bunsenId)
  /\ debugLog = <<TypeError>>
  /\ hook = Undefined

\* C9, as stated: a missing formHook makes the construction fail, so that the
\* failure is logged and the hook is not set.
MissingFormHookLeavesHookUnset ==
  pc = "ready" /\ formHook = Undefined => debugLog # <<>> /\ hook = Undefined

\* C10: onChange leaves value, showErrorMessage and cellConfig alone, the
\* value changes only when the parent supplies one, the focus actions change
\* nothing but showErrorMessage and invoke no callback, and of two identical
\* consecutive edits the second invokes the callback whenever the first did.
WidgetNeverCommitsItsValue ==
  /\ [][lastAction' = "onChange" => UNCHANGED <<value, showErrorMessage, cellConfig>>]_vars
  /\ [][value' # value => lastAction' = "update"]_vars
  /\ [][lastAction' \in {"onFocusIn", "onFocusOut"} =>
          /\ UNCHANGED <<bunsenId, formHook, cellConfig, value, errorMessage, showAllErrors,
                         hook, transformedValueCache>>
          /\ onChangeSpy' = <<>>]_vars
  /\ [](lastEdit.before = "fired" => lastEdit.n = 1)
  /\ [](lastEdit.before = "silent" => lastEdit.n = 0)

\* the second of two identical consecutive edits invoked the callback again
IdenticalEditsBothNotify ==
  /\ lastAction = "onChange"
  /\ lastEdit.before = "fired"
  /\ lastEdit.n = 1
  /\ Len(onChangeSpy) = 1

====
